---- MODULE Spec2Model ----
(***************************************************************************)
(* Model of goiardi's cookbook package (src/cookbook/cookbook.go): version *)
(* ordering, constraint checking, the per-cookbook version set with its    *)
(* cached latest pointer, and cookbook dependency resolution.              *)
(*                                                                         *)
(* Text is modelled by what the code does with it:                         *)
(*   - a version text "x.y.z" is the sequence of its dot-separated         *)
(*     components (what strings.Split(v, ".") yields), each component a    *)
(*     sequence of decimal digits; "1.0" is <<<<1>>, <<0>>>> and differs   *)
(*     from "1.0.0" = <<<<1>>, <<0>>, <<0>>>> as a string;                 *)
(*   - a constraint text is the sequence of its space-separated tokens     *)
(*     (what strings.Split(c, " ") yields): "" is <<"">>, ">= 1.0" is      *)
(*     <<">=", <<<<1>>, <<0>>>>>>;                                         *)
(*   - a run-list entry "name::recipe@version" is the sequence of its      *)
(*     "@"-separated parts, the first being the sequence of its            *)
(*     "::"-separated parts.                                               *)
(***************************************************************************)
EXTENDS Integers, Sequences, FiniteSets, TLC

VARIABLES store, args, ret, again

vars == <<store, args, ret, again>>

(***************************************************************************)
(* Bounds of the model.                                                    *)
(***************************************************************************)
\* largest component value of the version texts fed to the pure functions
MaxComponent == 10

\* largest number of cookbook versions in the store, all cookbooks together
MaxVersions == 4

\* largest number of dependency entries in the store, all versions together
MaxDepEntries == 3

\* largest number of entries of a run list
MaxRunList == 2

(***************************************************************************)
(* strconv.Atoi and fmt.Sprintf("%d") on digit strings.                    *)
(***************************************************************************)
RECURSIVE Atoi(_)
Atoi(s) ==
  IF s = <<>> THEN 0
  ELSE 10 * Atoi(SubSeq(s, 1, Len(s) - 1)) + s[Len(s)]

RECURSIVE Itoa(_)
Itoa(n) ==
  IF n < 10 THEN <<n>> ELSE Itoa(n \div 10) \o <<n % 10>>

(***************************************************************************)
(* versionLess (cookbook.go 1049-1084).  The loop over q = 0, 1, 2 is      *)
(* versionLessFrom; a side that runs out of components first is the        *)
(* smaller one.                                                            *)
(***************************************************************************)
\* a component comparison by text instead of by value (a plausible slip)
CompLessAsString(ic, jc) ==
  \/ \E k \in 1..Len(ic) :
       /\ k <= Len(jc)
       /\ SubSeq(ic, 1, k - 1) = SubSeq(jc, 1, k - 1)
       /\ ic[k] < jc[k]
  \/ /\ Len(ic) < Len(jc)
     /\ ic = SubSeq(jc, 1, Len(ic))

CompLess(ic, jc) == Atoi(ic) < Atoi(jc)

CompDiffer(ic, jc) == Atoi(ic) # Atoi(jc)

RECURSIVE versionLessFrom(_, _, _)
versionLessFrom(i_ver, j_ver, q) ==
  IF q >= 3 THEN FALSE
  ELSE IF Len(i_ver) < q + 1 THEN TRUE
  ELSE IF Len(j_ver) < q + 1 THEN FALSE
  ELSE IF CompDiffer(i_ver[q + 1], j_ver[q + 1])
       THEN CompLess(i_ver[q + 1], j_ver[q + 1])
       ELSE versionLessFrom(i_ver, j_ver, q + 1)

versionLess(ver_a, ver_b) ==
  IF ver_a = ver_b THEN FALSE ELSE versionLessFrom(ver_a, ver_b, 0)

(***************************************************************************)
(* verConstraintCheck (cookbook.go 1090-1156).                             *)
(***************************************************************************)
\* the upper end taken at the next major version whatever the number of
\* components of the bound (a plausible slip)
upperBoundMajor(ver_b) == <<Itoa(Atoi(ver_b[1]) + 1), <<0>>>>

upperBound(ver_b) ==
  IF Len(ver_b) = 3
  THEN <<ver_b[1], Itoa(Atoi(ver_b[2]) + 1)>>
  ELSE <<Itoa(Atoi(ver_b[1]) + 1), <<0>>>>

verConstraintCheck(ver_a, ver_b, op) ==
  CASE op = "="  -> IF ver_a = ver_b THEN "ok"
                    ELSE IF versionLess(ver_a, ver_b) THEN "break"
                    ELSE "skip"
    [] op = ">"  -> IF ver_a = ver_b \/ versionLess(ver_a, ver_b)
                    THEN "break" ELSE "ok"
    [] op = "<"  -> IF ver_a = ver_b \/ ~versionLess(ver_a, ver_b)
                    THEN "skip" ELSE "ok"
    [] op = ">=" -> IF ~versionLess(ver_a, ver_b) THEN "ok" ELSE "break"
    [] op = "<=" -> IF ver_a = ver_b \/ versionLess(ver_a, ver_b)
                    THEN "ok" ELSE "skip"
    [] op = "~>" -> IF versionLess(ver_a, ver_b) THEN "break"
                    ELSE IF /\ ~versionLess(ver_a, ver_b)
                            /\ versionLess(ver_a, upperBound(ver_b))
                         THEN "ok" ELSE "skip"
    [] OTHER     -> "invalid"

(***************************************************************************)
(* Values.                                                                 *)
(***************************************************************************)
Nil == [nil |-> TRUE]

\* the empty string, split on " " (strings.Split gives one empty token)
EmptyStr == <<"">>

Names == {"a", "b", "c"}

V10  == <<<<1>>, <<0>>>>
V100 == <<<<1>>, <<0>>, <<0>>>>
V200 == <<<<2>>, <<0>>, <<0>>>>

Operators == {"=", ">", ">=", "<", "<=", "~>"}

\* no call made yet, no arguments drawn, nothing stored
NoCall == [op |-> "none"]

NoArgs == [kind |-> "none"]

EmptyStore == [n \in Names |-> Nil]

(***************************************************************************)
(* The data store's "cookbook" table and Get (cookbook.go 155-186).        *)
(* store[n] is the *Cookbook saved under n, or Nil.                        *)
(***************************************************************************)
Get(name) == store[name]

(***************************************************************************)
(* sortedVersions (cookbook.go 220-243): the keys of c.Versions sorted     *)
(* with sort.Reverse over versionLess, then mapped to their versions.      *)
(***************************************************************************)
RECURSIVE sortDescending(_)
sortDescending(keys) ==
  IF keys = {} THEN <<>>
  ELSE LET top == CHOOSE k \in keys : \A o \in keys : ~versionLess(k, o)
       IN  <<top>> \o sortDescending(keys \ {top})

sortedKeys(keys) == sortDescending(keys)

sortedVersions(c) ==
  LET keys == sortedKeys(DOMAIN c.Versions)
  IN  [i \in 1..Len(keys) |-> c.Versions[keys[i]]]

(***************************************************************************)
(* LatestVersion (cookbook.go 252-258).  Panic stands for the index-out-   *)
(* of-range run-time panic of sorted[0] on an empty slice.                 *)
(***************************************************************************)
Panic == [panic |-> TRUE]

LatestVersion(c) ==
  IF c.latest # Nil THEN c.latest
  ELSE IF DOMAIN c.Versions = {} THEN Panic
  ELSE sortedVersions(c)[1]

\* the cookbook as LatestVersion leaves it (the cache is filled when nil)
AfterLatestVersion(c) ==
  IF c.latest = Nil /\ DOMAIN c.Versions # {}
  THEN [c EXCEPT !.latest = sortedVersions(c)[1]]
  ELSE c

(***************************************************************************)
(* splitConstraint (cookbook.go 458-468).                                  *)
(***************************************************************************)
splitOk(constraint) == Len(constraint) = 2

(***************************************************************************)
(* LatestConstrained (cookbook.go 540-563): the first element of the       *)
(* sorted list whose check is "ok"; "skip" and "break" both move on.       *)
(***************************************************************************)
FirstOk(sorted, ver, op) ==
  LET hits == {i \in 1..Len(sorted) :
                 verConstraintCheck(sorted[i].Version, ver, op) = "ok"}
  IN  IF hits = {} THEN Nil
      ELSE sorted[CHOOSE i \in hits : \A j \in hits : i <= j]

LatestConstrained(c, constraint) ==
  IF constraint = EmptyStr THEN LatestVersion(c)
  ELSE IF ~splitOk(constraint) THEN Nil
  ELSE FirstOk(sortedVersions(c), constraint[2], constraint[1])

(***************************************************************************)
(* infoHashBase (cookbook.go 470-536), which InfoHash and                  *)
(* ConstrainedInfoHash call.  num_results is [kind |-> "empty"] for "",    *)
(* [kind |-> "all"] for "all", and [kind |-> "number", text |-> digits]    *)
(* for any other text.  The result is nil for a malformed constraint, and  *)
(* otherwise the hash, of which the model keeps the version texts of       *)
(* cb_hash["versions"] in their order.  Only "skip" and "break" keep a     *)
(* version off the list: "ok" and "invalid" both append it.                *)
(***************************************************************************)
numVersions(num_results) ==
  CASE num_results.kind = "number" -> Atoi(num_results.text)
    [] num_results.kind = "empty"  -> 1
    [] OTHER                       -> 0

RECURSIVE VerLoop(_, _, _, _, _, _)
VerLoop(sorted, i, nr, listed, num_results, constraint) ==
  IF i > Len(sorted) THEN listed
  ELSE IF num_results.kind # "all" /\ nr >= numVersions(num_results)
       THEN listed
  ELSE LET cv == sorted[i]
           con_action == IF constraint = EmptyStr THEN "none"
                         ELSE verConstraintCheck(cv.Version, constraint[2],
                                                 constraint[1])
       IN  CASE con_action = "skip" ->
                  VerLoop(sorted, i + 1, nr, listed, num_results, constraint)
             [] con_action = "break" -> listed
             [] OTHER ->
                  VerLoop(sorted, i + 1, nr + 1,
                          Append(listed, cv.Version), num_results, constraint)

infoHashBase(c, num_results, constraint) ==
  IF constraint # EmptyStr /\ ~splitOk(constraint) THEN Nil
  ELSE [versions |->
          VerLoop(sortedVersions(c), 1, 0, <<>>, num_results, constraint)]

ConstrainedInfoHash(c, num_results, constraint) ==
  infoHashBase(c, num_results, constraint)

(***************************************************************************)
(* Cookbook versions.  A *CookbookVersion is the record of the fields the  *)
(* model follows; Dependencies is Metadata["dependencies"], a map from     *)
(* cookbook name to constraint text.                                       *)
(***************************************************************************)
NoErr == [kind |-> "none"]

Err(kind, name) == [kind |-> kind, name |-> name]

\* CookbookVersion.UpdateVersion (cookbook.go 735-876), the part that
\* decides whether the upload is taken and what it leaves in the version:
\* the frozen test, the sanity checks of cookbook_name and version, and the
\* assignments of the content divisions, IsFrozen and Metadata.  Files is
\* the checksums of the files of the nine divisions, in division order.
\* the sanity checks without the frozen test (a plausible slip)
UpdateVersionErrForced(cbv, cbv_data, force) ==
  IF cbv_data.cookbook_name # cbv.CookbookName \/ cbv_data.version # cbv.Version
  THEN Err("invalid", cbv.CookbookName)
  ELSE NoErr

UpdateVersionErr(cbv, cbv_data, force) ==
  IF cbv.IsFrozen /\ force # "true" THEN Err("frozen", cbv.CookbookName)
  ELSE IF cbv_data.cookbook_name # cbv.CookbookName
       THEN Err("invalid", cbv.CookbookName)
  ELSE IF cbv_data.version # cbv.Version
       THEN Err("invalid", cbv.CookbookName)
  ELSE NoErr

UpdateVersionData(cbv, cbv_data) ==
  [cbv EXCEPT !.Files = cbv_data.files,
              !.IsFrozen = IF cbv.IsFrozen THEN TRUE ELSE cbv_data.frozen,
              !.Dependencies = cbv_data.dependencies]

(***************************************************************************)
(* New followed by Save (cookbook.go 95-122, 189-197): New builds a        *)
(* cookbook with no versions, whether or not one is stored under the name  *)
(* (the error made when one is found is never returned); Save stores it.   *)
(***************************************************************************)
NewCookbook(name) ==
  [Name |-> name, Versions |-> <<>>, latest |-> Nil]

New(name) ==
  /\ store' = [store EXCEPT ![name] = NewCookbook(name)]
  /\ ret' = [op |-> "New", name |-> name, err |-> NoErr]
  /\ again' = NoCall
  /\ UNCHANGED args

(***************************************************************************)
(* GetVersion (cookbook.go 601-637), in-memory, for a version text.        *)
(***************************************************************************)
\* no version is ever found (a plausible slip)
GetVersionMissing(c, cbVersion) == Nil

GetVersion(c, cbVersion) ==
  IF cbVersion \in DOMAIN c.Versions THEN c.Versions[cbVersion] ELSE Nil

(***************************************************************************)
(* NewVersion (cookbook.go 570-596) on the cookbook stored under name.     *)
(***************************************************************************)
\* the cache left as it was (a plausible slip)
KeepLatestVersion(c) == c

\* UpdateLatestVersion (cookbook.go 246-249): drop the cache, recompute it
UpdateLatestVersion(c) == AfterLatestVersion([c EXCEPT !.latest = Nil])

AddVersion(c, cbv) ==
  [c EXCEPT !.Versions =
     [v \in DOMAIN c.Versions \cup {cbv.Version} |->
        IF v = cbv.Version THEN cbv ELSE c.Versions[v]]]

NewVersion(name, cb_version, cbv_data) ==
  LET c == Get(name)
      cbv == [CookbookName |-> c.Name, Version |-> cb_version,
              Dependencies |-> <<>>, IsFrozen |-> FALSE, Files |-> <<>>]
      err == IF GetVersion(c, cb_version) # Nil THEN Err("conflict", name)
             ELSE UpdateVersionErr(cbv, cbv_data, "")
  IN  /\ c # Nil
      /\ store' = IF err # NoErr THEN store
                  ELSE [store EXCEPT ![name] =
                          UpdateLatestVersion(
                            AddVersion(c, UpdateVersionData(cbv, cbv_data)))]
      /\ ret' = [op |-> "NewVersion", name |-> name, version |-> cb_version,
                 err |-> err]
      /\ again' = NoCall
      /\ UNCHANGED args

(***************************************************************************)
(* The checksums of a version's files.  A checksum is a text; the model    *)
(* writes it as a number, and the order of the numbers is the order of     *)
(* the texts.                                                              *)
(***************************************************************************)
\* delSliceElement (cookbook.go 1003-1006), positions counted from 1
delSliceElement(pos, strs) ==
  [i \in 1..(Len(strs) - 1) |-> IF i < pos THEN strs[i] ELSE strs[i + 1]]

\* sort.Strings
RECURSIVE sortStrings(_)
sortStrings(strs) ==
  IF strs = <<>> THEN <<>>
  ELSE LET m == CHOOSE i \in 1..Len(strs) :
                  \A j \in 1..Len(strs) : strs[i] <= strs[j]
       IN  <<strs[m]>> \o sortStrings(delSliceElement(m, strs))

\* removeDupHashes (cookbook.go 988-1001): the loop index moves on after a
\* removal, so the element that slid into position i + 1 is not compared
\* with the one at position i
RECURSIVE removeDupLoop(_, _)
removeDupLoop(file_hashes, i) ==
  IF i + 1 > Len(file_hashes) THEN file_hashes
  ELSE IF file_hashes[i] = file_hashes[i + 1]
       THEN removeDupLoop(delSliceElement(i + 1, file_hashes), i + 1)
  ELSE removeDupLoop(file_hashes, i + 1)

removeDupHashes(file_hashes) == removeDupLoop(file_hashes, 1)

\* fileHashes (cookbook.go 890-909)
fileHashes(cbv) == removeDupHashes(sortStrings(cbv.Files))

\* deleteHashes (cookbook.go 675-705), innermost loop: one hash vh of a
\* stored version against the list, from position i
RECURSIVE hashLoop(_, _, _)
hashLoop(file_hashes, vh, i) ==
  IF i > Len(file_hashes) THEN file_hashes
  ELSE IF file_hashes[i] = vh THEN delSliceElement(i, file_hashes)
  ELSE IF file_hashes[i] > vh THEN file_hashes
  ELSE hashLoop(file_hashes, vh, i + 1)

\* the hashes of one stored version, from position j of ver_hash
RECURSIVE verHashLoop(_, _, _)
verHashLoop(file_hashes, ver_hash, j) ==
  IF j > Len(ver_hash) THEN file_hashes
  ELSE verHashLoop(hashLoop(file_hashes, ver_hash[j], 1), ver_hash, j + 1)

\* the versions of one cookbook, from position k of sortedVersions
RECURSIVE versionsLoop(_, _, _)
versionsLoop(file_hashes, sorted, k) ==
  IF k > Len(sorted) THEN file_hashes
  ELSE versionsLoop(verHashLoop(file_hashes, fileHashes(sorted[k]), 1),
                    sorted, k + 1)

\* AllCookbooks (cookbook.go 137-152) of the store st, as a set of names
AllCookbooks(st) == {n \in DOMAIN st : st[n] # Nil}

\* the cookbooks one after the other; the list that is left is the one
\* handed to filestore.DeleteHashes
RECURSIVE deleteHashes(_, _, _)
deleteHashes(file_hashes, st, todo) ==
  IF todo = {} THEN file_hashes
  ELSE LET n == CHOOSE n \in todo : TRUE
       IN  deleteHashes(versionsLoop(file_hashes, sortedVersions(st[n]), 1),
                        st, todo \ {n})

(***************************************************************************)
(* DeleteVersion (cookbook.go 708-732), in-memory: the version leaves the  *)
(* map; c.latest is not touched.                                           *)
(***************************************************************************)
RemoveVersion(c, cb_version) ==
  [c EXCEPT !.Versions =
     [v \in DOMAIN c.Versions \ {cb_version} |-> c.Versions[v]]]

DeleteVersion(name, cb_version) ==
  LET c == Get(name)
      cbv == GetVersion(c, cb_version)
      after == IF cbv = Nil THEN store
               ELSE [store EXCEPT ![name] = RemoveVersion(c, cb_version)]
  IN  /\ c # Nil
      /\ store' = after
      /\ ret' = [op |-> "DeleteVersion", name |-> name,
                 version |-> cb_version,
                 err |-> IF cbv = Nil THEN Err("not_found", name) ELSE NoErr,
                 file_hashes |-> IF cbv = Nil THEN <<>> ELSE fileHashes(cbv),
                 deleted |-> IF cbv = Nil THEN <<>>
                             ELSE deleteHashes(fileHashes(cbv), after,
                                               AllCookbooks(after))]
      /\ again' = NoCall
      /\ UNCHANGED args

(***************************************************************************)
(* UpdateVersion (cookbook.go 735-876) on a stored version.  The version   *)
(* is updated in place, so the cookbook's cache of its latest version      *)
(* shows the update when it is this version.  The hashes the version had   *)
(* before (file_hashes) are cleaned when there are any; deleted is the     *)
(* list handed to filestore.DeleteHashes.                                  *)
(***************************************************************************)
UpdateInPlace(c, cbv) ==
  [c EXCEPT !.Versions = [c.Versions EXCEPT ![cbv.Version] = cbv],
            !.latest = IF c.latest # Nil /\ c.latest.Version = cbv.Version
                       THEN cbv ELSE c.latest]

UpdateVersion(name, cb_version, cbv_data, force) ==
  LET c == Get(name)
      cbv == GetVersion(c, cb_version)
      err == UpdateVersionErr(cbv, cbv_data, force)
      file_hashes == fileHashes(cbv)
      after == IF err # NoErr THEN store
               ELSE [store EXCEPT ![name] =
                       UpdateInPlace(c, UpdateVersionData(cbv, cbv_data))]
  IN  /\ c # Nil
      /\ cbv # Nil
      /\ store' = after
      /\ ret' = [op |-> "UpdateVersion", name |-> name,
                 version |-> cb_version, force |-> force, err |-> err,
                 file_hashes |-> IF err = NoErr THEN file_hashes ELSE <<>>,
                 deleted |-> IF err = NoErr /\ Len(file_hashes) > 0
                             THEN deleteHashes(file_hashes, after,
                                               AllCookbooks(after))
                             ELSE <<>>]
      /\ again' = NoCall
      /\ UNCHANGED args

(***************************************************************************)
(* DependsCookbooks, first loop (cookbook.go 276-293): the run list is     *)
(* parsed into cd_list (cookbook name -> list of constraints) and          *)
(* run_list_ref (the names in run-list order).  A name that occurs twice   *)
(* keeps the constraint of its last entry.                                 *)
(***************************************************************************)
entryName(cb_v) == cb_v[1][1]

entryConstraint(cb_v) ==
  IF Len(cb_v) = 2 THEN <<"=", cb_v[2]>> ELSE EmptyStr

initialCdList(run_list) ==
  LET idx == 1..Len(run_list)
      names == {entryName(run_list[i]) : i \in idx}
      last(n) == CHOOSE i \in idx :
                   /\ entryName(run_list[i]) = n
                   /\ \A j \in idx : entryName(run_list[j]) = n => j <= i
  IN  [n \in names |-> <<entryConstraint(run_list[last(n)])>>]

runListRef(run_list) ==
  [i \in 1..Len(run_list) |-> entryName(run_list[i])]

(***************************************************************************)
(* DependsCookbooks, second loop (cookbook.go 295-342): the environment's  *)
(* constraint for k against the run list's.  mergeEnv is one iteration:    *)
(* the error it returns with, or the entry it leaves in cd_list[k].        *)
(***************************************************************************)
\* the environment's constraint taken whatever the run list asks for (a
\* plausible slip)
mergeEnvOverride(k, entry, ec) == [err |-> NoErr, entry |-> <<ec>>]

mergeEnv(k, entry, ec) ==
  IF entry[1] = EmptyStr THEN [err |-> NoErr, entry |-> <<ec>>]
  ELSE IF ~splitOk(ec) THEN [err |-> Err("malformed", k), entry |-> entry]
  ELSE
    LET orgver == entry[1][2]
        newop == ec[1]
        newver == ec[2]
    IN  IF orgver = newver THEN [err |-> NoErr, entry |-> <<ec>>]
        ELSE CASE newop \in {">", ">="} ->
                    [err |-> NoErr,
                     entry |-> IF versionLess(orgver, newver)
                               THEN <<ec>> ELSE entry]
               [] newop \in {"<", "<="} ->
                    [err |-> NoErr,
                     entry |-> IF ~versionLess(orgver, newver)
                               THEN <<ec>> ELSE entry]
               [] newop = "=" ->
                    IF orgver # newver
                    THEN [err |-> Err("env_conflict", k), entry |-> entry]
                    ELSE [err |-> NoErr, entry |-> entry]
               [] newop = "~>" ->
                    IF verConstraintCheck(orgver, newver, newop) = "ok"
                    THEN [err |-> NoErr, entry |-> <<ec>>]
                    ELSE [err |-> Err("env_conflict", k), entry |-> entry]
               [] OTHER ->
                    [err |-> Err("env_impossible", k), entry |-> entry]

\* The loop ranges over the map env_constraints in an unspecified order and
\* returns at the first error.  An iteration reads and writes cd_list[k]
\* only, so the outcomes are: the error of any key that has one, or, when
\* none has, the table with every common key merged.
envLoop(cd, env) ==
  LET keys == DOMAIN env \cap DOMAIN cd
      m(k) == mergeEnv(k, cd[k], env[k])
      bad == {k \in keys : m(k).err # NoErr}
  IN  IF bad # {}
      THEN {[err |-> m(k).err, cd |-> cd] : k \in bad}
      ELSE {[err |-> NoErr,
             cd |-> [n \in DOMAIN cd |->
                       IF n \in keys THEN m(n).entry ELSE cd[n]]]}

(***************************************************************************)
(* resolveDependencies (cookbook.go 415-456).  The state threaded through  *)
(* the recursion is st = [cd, wrote]: cd_list, and the names of the        *)
(* cookbooks whose LatestVersion was called.  Every operator returns the   *)
(* set of outcomes [status, st, err] over the orders in which the map      *)
(* dep_list can be ranged over.  status "overflow" is the recursion        *)
(* passing MaxDepth nested calls: with at most MaxDepth versions stored,   *)
(* some version is then on the call stack twice.                           *)
(***************************************************************************)
\* the deepest nesting of resolveDependencies that is followed: the largest
\* number of versions the store is given
MaxDepth == MaxVersions

Outcome(status, st, err) == [status |-> status, st |-> st, err |-> err]

\* the loop over the constraints cd_list[r] already holds (431-444)
checkExisting(deb_cbv, constraints, r, c) ==
  LET bad == {i \in 1..Len(constraints) :
                /\ constraints[i] # EmptyStr
                /\ \/ ~splitOk(constraints[i])
                   \/ verConstraintCheck(deb_cbv.Version, constraints[i][2],
                                         constraints[i][1]) # "ok"}
  IN  IF bad = {} THEN NoErr
      ELSE LET i == CHOOSE i \in bad : \A j \in bad : i <= j
           IN  IF ~splitOk(constraints[i]) THEN Err("malformed", r)
               ELSE [kind |-> "dep_conflict", name |-> r, c |-> c,
                     dcon |-> constraints[i]]

noteLatest(st, name, constraint) ==
  IF constraint = EmptyStr
  THEN [st EXCEPT !.wrote = st.wrote \cup {name}]
  ELSE st

addConstraint(cd, r, c) ==
  [n \in DOMAIN cd \cup {r} |-> IF n = r THEN <<c>> ELSE cd[n]]

RECURSIVE resolveDependencies(_, _, _)
RECURSIVE resolveDepLoop(_, _, _, _)
RECURSIVE resolveOneDep(_, _, _, _)

resolveDependencies(cbv, st, depth) ==
  IF depth > MaxDepth THEN {Outcome("overflow", st, NoErr)}
  ELSE resolveDepLoop(cbv, DOMAIN cbv.Dependencies, st, depth)

\* the range over dep_list: any key not yet visited may come next
resolveDepLoop(cbv, todo, st, depth) ==
  IF todo = {} THEN {Outcome("ok", st, NoErr)}
  ELSE UNION {
         UNION { IF o.status = "ok"
                 THEN resolveDepLoop(cbv, todo \ {r}, o.st, depth)
                 ELSE {o} : o \in resolveOneDep(cbv, r, st, depth) }
         : r \in todo }

\* one iteration of the loop, for the dependency r -> c
resolveOneDep(cbv, r, st, depth) ==
  LET c == cbv.Dependencies[r]
      dep_cb == Get(r)
  IN  IF dep_cb = Nil THEN {Outcome("error", st, Err("not_found", r))}
      ELSE
        LET deb_cbv == LatestConstrained(dep_cb, c)
            st1 == noteLatest(st, r, c)
        IN  IF deb_cbv = Panic THEN {Outcome("panic", st1, NoErr)}
            ELSE IF deb_cbv = Nil
                 THEN {Outcome("error", st1, Err("no_version", r))}
            ELSE IF r \in DOMAIN st1.cd
                 THEN LET err == checkExisting(deb_cbv, st1.cd[r], r, c)
                      IN  IF err # NoErr THEN {Outcome("error", st1, err)}
                          ELSE resolveDependencies(deb_cbv, st1, depth + 1)
            ELSE resolveDependencies(
                   deb_cbv, [st1 EXCEPT !.cd = addConstraint(st1.cd, r, c)],
                   depth + 1)

(***************************************************************************)
(* DependsCookbooks, third loop (cookbook.go 345-359), over run_list_ref   *)
(* from position i on.                                                     *)
(***************************************************************************)
RECURSIVE runListLoop(_, _, _)
runListLoop(ref, i, st) ==
  IF i > Len(ref) THEN {Outcome("ok", st, NoErr)}
  ELSE
    LET cbName == ref[i]
        c == Get(cbName)
    IN  IF c = Nil THEN {Outcome("error", st, Err("not_found", cbName))}
        ELSE
          LET cbv == LatestConstrained(c, st.cd[cbName][1])
              st1 == noteLatest(st, cbName, st.cd[cbName][1])
          IN  IF cbv = Panic THEN {Outcome("panic", st1, NoErr)}
              ELSE IF cbv = Nil
                   THEN {Outcome("error", st1, Err("no_version", cbName))}
              ELSE UNION { IF o.status = "ok"
                           THEN runListLoop(ref, i + 1, o.st)
                           ELSE {o}
                           : o \in resolveDependencies(cbv, st1, 1) }

(***************************************************************************)
(* DependsCookbooks, last loop (cookbook.go 361-410).  The label Vers is   *)
(* on the loop over traints, so `continue Vers` goes on to the next        *)
(* constraint: a check that is not "ok" rejects nothing, the loop over     *)
(* traints always runs to its end unless a constraint is malformed, and    *)
(* gcbv is the first element of the sorted list.                           *)
(***************************************************************************)
finalPick(cb, traints, cname) ==
  LET sorted == sortedVersions(cb)
      malformed == \E i \in 1..Len(traints) :
                     traints[i] # EmptyStr /\ ~splitOk(traints[i])
  IN  IF Len(sorted) = 0
      THEN [err |-> Err("unsatisfied", cname), gcbv |-> Nil]
      ELSE IF malformed
           THEN [err |-> Err("malformed", cname), gcbv |-> Nil]
      ELSE [err |-> NoErr, gcbv |-> sorted[1]]

\* The range over cd_list returns at the first error, in an unspecified
\* order; an iteration depends on no other, so the outcomes are the error
\* of any name that has one or, when none has, the whole map, keyed by
\* gcbv.CookbookName.
finalLoop(cd) ==
  LET f(n) == IF Get(n) = Nil
              THEN [err |-> Err("not_found", n), gcbv |-> Nil]
              ELSE finalPick(Get(n), cd[n], n)
      bad == {n \in DOMAIN cd : f(n).err # NoErr}
  IN  IF bad # {}
      THEN {[err |-> f(n).err, deps |-> <<>>] : n \in bad}
      ELSE {[err |-> NoErr,
             deps |-> [k \in {f(n).gcbv.CookbookName : n \in DOMAIN cd} |->
                         LET n == CHOOSE n \in DOMAIN cd :
                                    f(n).gcbv.CookbookName = k
                         IN  f(n).gcbv]]}

(***************************************************************************)
(* DependsCookbooks (cookbook.go 275-413): the set of its outcomes         *)
(* [status, deps, cd, wrote, err]; deps is the returned map (empty unless  *)
(* status is "ok"), cd the constraint table as the call left it.           *)
(***************************************************************************)
Result(status, deps, st, err) ==
  [status |-> status, deps |-> deps, cd |-> st.cd, wrote |-> st.wrote,
   err |-> err]

DependsCookbooks(run_list, env_constraints) ==
  LET cd0 == initialCdList(run_list)
      ref == runListRef(run_list)
  IN  UNION {
        IF e.err # NoErr
        THEN {Result("error", <<>>, [cd |-> e.cd, wrote |-> {}], e.err)}
        ELSE UNION {
               IF o.status # "ok"
               THEN {Result(o.status, <<>>, o.st, o.err)}
               ELSE { IF f.err # NoErr
                      THEN Result("error", <<>>, o.st, f.err)
                      ELSE Result("ok", f.deps, o.st, NoErr)
                      : f \in finalLoop(o.st.cd) }
               : o \in runListLoop(ref, 1, [cd |-> e.cd, wrote |-> {}]) }
        : e \in envLoop(cd0, env_constraints) }

(***************************************************************************)
(* A call of DependsCookbooks, and a second call on a permutation of the   *)
(* same run list with the same environment constraints, nothing having     *)
(* changed in between.  The call returns one of its outcomes; the          *)
(* cookbooks whose cache LatestVersion filled are stored as it left them.  *)
(***************************************************************************)
CallRecord(run_list, env, o) ==
  [op |-> "DependsCookbooks", run_list |-> run_list, env |-> env,
   status |-> o.status, deps |-> o.deps, cd |-> o.cd, err |-> o.err]

StoreAfter(o) ==
  [n \in Names |->
     IF n \in o.wrote /\ store[n] # Nil
     THEN AfterLatestVersion(store[n]) ELSE store[n]]

Resolve(run_list, env) ==
  \E o \in DependsCookbooks(run_list, env) :
    /\ store' = StoreAfter(o)
    /\ ret' = CallRecord(run_list, env, o)
    /\ again' = NoCall
    /\ UNCHANGED args

Reorderings(seq) ==
  LET idx == 1..Len(seq)
  IN  {[i \in idx |-> seq[p[i]]] :
         p \in {q \in [idx -> idx] : \A i, j \in idx : q[i] = q[j] => i = j}}

ResolveAgain(run_list) ==
  /\ ret.op = "DependsCookbooks"
  /\ again = NoCall
  /\ run_list \in Reorderings(ret.run_list)
  /\ \E o \in DependsCookbooks(run_list, ret.env) :
       /\ store' = StoreAfter(o)
       /\ again' = CallRecord(run_list, ret.env, o)
  /\ UNCHANGED <<args, ret>>

(***************************************************************************)
(* The cookbook store under uploads, deletions and resolutions.            *)
(***************************************************************************)
\* The uploads the store is built from.  Cookbook "a" stands for an
\* application, "b" for a library and "c" for a base cookbook: "a" may
\* depend on "b" and "c", "b" on "c" and (closing a cycle) on "a", and "c"
\* on itself.  Only "c" is uploaded in two versions.
StoreVersions == {V100, V200}

VersionsOf(n) == IF n = "c" THEN StoreVersions ELSE {V100}

DepTargets(n) ==
  CASE n = "a" -> {"b", "c"}
    [] n = "b" -> {"c", "a"}
    [] OTHER   -> {"c"}

DepConstraints == {EmptyStr, <<"=", V100>>, <<">=", V100>>}

DepMaps(n) == UNION {[D -> DepConstraints] : D \in SUBSET DepTargets(n)}

RECURSIVE SumOver(_, _)
SumOver(S, f) ==
  IF S = {} THEN 0
  ELSE LET x == CHOOSE x \in S : TRUE
       IN  f[x] + SumOver(S \ {x}, f)

Present == {n \in Names : store[n] # Nil}

NumStored ==
  SumOver(Present, [n \in Present |-> Cardinality(DOMAIN store[n].Versions)])

NumDepEntries ==
  SumOver(Present,
          [n \in Present |->
             LET vs == DOMAIN store[n].Versions
             IN  SumOver(vs, [v \in vs |->
                   Cardinality(DOMAIN store[n].Versions[v].Dependencies)])])

Upload(name, version, deps) ==
  /\ NumStored < MaxVersions
  /\ NumDepEntries + Cardinality(DOMAIN deps) <= MaxDepEntries
  /\ NewVersion(name, version,
                [cookbook_name |-> name, version |-> version,
                 dependencies |-> deps, frozen |-> FALSE, files |-> <<>>])

\* run-list entries: each cookbook by name, and "c@1.0.0"
RunListEntries ==
  {<<<<n>>>> : n \in Names} \cup {<<<<"c">>, V100>>}

RunLists ==
  UNION {[1..k -> RunListEntries] : k \in 1..MaxRunList}

NoEnv == <<>>

Init ==
  /\ store = EmptyStore
  /\ args = NoArgs
  /\ ret = NoCall
  /\ again = NoCall

\* A behaviour builds the store and ends with one resolution and its
\* repetition: a call of DependsCookbooks leaves the store as it was, so no
\* pair of a store and a call is lost by stopping there.
Building == ret.op # "DependsCookbooks"

Next ==
  \/ /\ Building
     /\ \E n \in Names : New(n)
  \/ /\ Building
     /\ \E n \in Names : \E v \in VersionsOf(n), d \in DepMaps(n) :
          Upload(n, v, d)
  \/ /\ Building
     /\ \E rl \in RunLists : Resolve(rl, NoEnv)
  \/ \E rl \in RunLists : ResolveAgain(rl)

Spec == Init /\ [][Next]_vars

(***************************************************************************)
(* The same store with the library "b" and the base cookbook "c" only:     *)
(* "a", which "b" may depend on, is never uploaded.                        *)
(***************************************************************************)
LibNames == {"b", "c"}

LibRunListEntries ==
  {<<<<n>>>> : n \in LibNames} \cup {<<<<"c">>, V100>>}

LibRunLists ==
  UNION {[1..k -> LibRunListEntries] : k \in 1..MaxRunList}

NextLib ==
  \/ /\ Building
     /\ \E n \in LibNames : New(n)
  \/ /\ Building
     /\ \E n \in LibNames : \E v \in VersionsOf(n), d \in DepMaps(n) :
          Upload(n, v, d)
  \/ /\ Building
     /\ \E rl \in LibRunLists : Resolve(rl, NoEnv)
  \/ /\ ~Building
     /\ ResolveAgain(ret.run_list)

SpecLib == Init /\ [][NextLib]_vars

(***************************************************************************)
(* One cookbook under uploads, deletions and queries.                      *)
(***************************************************************************)
V120 == <<<<1>>, <<2>>, <<0>>>>

\* the version texts uploaded to, and asked of, the cookbook: "1.0",
\* "1.0.0", "1.2.0" and "2.0.0"
CookbookVersions == {V10, V100, V120, V200}

\* the operators of the constraints asked: the six that verConstraintCheck
\* knows and one that it does not
CallOperators == Operators \cup {"!="}

QueryConstraints ==
  {EmptyStr} \cup {<<op, v>> : op \in CallOperators, v \in CookbookVersions}

\* num_results: "", "all", "0" and "2"
NumResults ==
  {[kind |-> "empty"], [kind |-> "all"]}
    \cup {[kind |-> "number", text |-> t] : t \in {<<0>>, <<2>>}}

\* an upload: well-formed for the cookbook, or naming another cookbook
UploadData(name, version) ==
  {[cookbook_name |-> n, version |-> version, dependencies |-> <<>>,
    frozen |-> FALSE, files |-> <<>>] : n \in {name, "b"}}

\* a call of LatestVersion on the stored cookbook
CallLatestVersion(name) ==
  LET c == Get(name)
  IN  /\ c # Nil
      /\ store' = [store EXCEPT ![name] = AfterLatestVersion(c)]
      /\ ret' = [op |-> "LatestVersion", name |-> name,
                 out |-> LatestVersion(c)]
      /\ UNCHANGED <<args, again>>

\* a call of LatestConstrained on the stored cookbook
CallLatestConstrained(name, constraint) ==
  LET c == Get(name)
  IN  /\ c # Nil
      /\ store' = IF constraint = EmptyStr
                  THEN [store EXCEPT ![name] = AfterLatestVersion(c)]
                  ELSE store
      /\ ret' = [op |-> "LatestConstrained", name |-> name,
                 constraint |-> constraint,
                 out |-> LatestConstrained(c, constraint)]
      /\ UNCHANGED <<args, again>>

\* a call of ConstrainedInfoHash on the stored cookbook
CallConstrainedInfoHash(name, num_results, constraint) ==
  LET c == Get(name)
  IN  /\ c # Nil
      /\ ret' = [op |-> "ConstrainedInfoHash", name |-> name,
                 num_results |-> num_results, constraint |-> constraint,
                 out |-> ConstrainedInfoHash(c, num_results, constraint)]
      /\ UNCHANGED <<store, args, again>>

NextCookbook ==
  \/ New("a")
  \/ \E v \in CookbookVersions : \E d \in UploadData("a", v) :
       NewVersion("a", v, d)
  \/ \E v \in CookbookVersions : DeleteVersion("a", v)
  \/ CallLatestVersion("a")
  \/ \E ct \in QueryConstraints : CallLatestConstrained("a", ct)
  \/ \E nr \in NumResults, ct \in QueryConstraints :
       CallConstrainedInfoHash("a", nr, ct)

SpecCookbook == Init /\ [][NextCookbook]_vars

(***************************************************************************)
(* One cookbook under uploads of new versions, updates of stored versions  *)
(* (forced or not, freezing or not) and deletions.                         *)
(***************************************************************************)
UploadVersions == {V100, V120, V200}

\* the dependencies an upload declares: none, or "b" at any version
UploadDeps == {<<>>, [n \in {"b"} |-> EmptyStr]}

\* an upload for the cookbook, or naming another cookbook; with or without
\* the frozen flag
FullUploadData(name, version) ==
  {[cookbook_name |-> n, version |-> version, dependencies |-> d,
    frozen |-> f, files |-> <<>>] :
     n \in {name, "b"}, d \in UploadDeps, f \in BOOLEAN}

Force == {"", "true", "false"}

NextUpload ==
  \/ New("a")
  \/ \E v \in UploadVersions : \E d \in FullUploadData("a", v) :
       NewVersion("a", v, d)
  \/ \E v \in UploadVersions : \E d \in FullUploadData("a", v) :
       \E force \in Force : UpdateVersion("a", v, d, force)
  \/ \E v \in UploadVersions : DeleteVersion("a", v)

SpecUpload == Init /\ [][NextUpload]_vars

(***************************************************************************)
(* Two cookbooks whose versions carry files, under uploads, updates and    *)
(* deletions.                                                              *)
(***************************************************************************)
\* the checksums are 1..MaxChecksum
MaxChecksum == 2

\* the largest number of files of a version
MaxFiles == 3

Checksums == 1..MaxChecksum

\* the files of version 1.0.0 of "a": any list of up to MaxFiles
\* checksums; of the other versions: at most one file
FileLists(n, v) ==
  UNION {[1..k -> Checksums] :
           k \in 0..(IF n = "a" /\ v = V100 THEN MaxFiles ELSE 1)}

FileVersions(n) == IF n = "a" THEN {V100, V200} ELSE {V100}

FileNames == {"a", "b"}

FileUploadData(name, version) ==
  {[cookbook_name |-> name, version |-> version, dependencies |-> <<>>,
    frozen |-> FALSE, files |-> f] : f \in FileLists(name, version)}

NextFiles ==
  \/ \E n \in FileNames : New(n)
  \/ \E n \in FileNames : \E v \in FileVersions(n) :
       \E d \in FileUploadData(n, v) : NewVersion(n, v, d)
  \/ \E n \in FileNames : \E v \in FileVersions(n) :
       \E d \in FileUploadData(n, v) : UpdateVersion(n, v, d, "")
  \/ \E n \in FileNames : \E v \in FileVersions(n) : DeleteVersion(n, v)

SpecFiles == Init /\ [][NextFiles]_vars

(***************************************************************************)
(* Resolution of a one-entry run list for cookbook "c" under environment   *)
(* constraints.                                                            *)
(***************************************************************************)
\* the version texts of the run list, of the environment and of the uploads:
\* "1.0", "1.0.0", "1.2.0" and "2.0.0"
EnvVersions == {V10, V100, V120, V200}

EnvRunLists ==
  {<<<<<<"c">>>>>>} \cup {<<<<<<"c">>, v>>>> : v \in EnvVersions}

\* no constraint, or one constraint, for "c" or for "a"
Envs ==
  {NoEnv} \cup
  UNION {[{n} -> {<<op, v>> : op \in CallOperators, v \in EnvVersions}] :
           n \in {"a", "c"}}

NextEnv ==
  \/ /\ Building
     /\ New("c")
  \/ /\ Building
     /\ \E v \in EnvVersions : Upload("c", v, <<>>)
  \/ /\ Building
     /\ \E rl \in EnvRunLists, env \in Envs : Resolve(rl, env)

SpecEnv == Init /\ [][NextEnv]_vars

(***************************************************************************)
(* The pure version functions applied to bounded inputs.                   *)
(***************************************************************************)
\* components: the decimal texts of 0, MaxComponent - 1 and MaxComponent
Components == {Itoa(0), Itoa(MaxComponent - 1), Itoa(MaxComponent)}

\* version texts "x.y" and "x.y.z"
VersionTexts ==
  {<<x, y>> : x \in Components, y \in Components}
    \cup {<<x, y, z>> : x \in Components, y \in Components, z \in Components}

VersionArgs ==
  {[kind |-> "order", a |-> a, b |-> b, c |-> c] :
     a \in VersionTexts, b \in VersionTexts, c \in VersionTexts}
    \cup {[kind |-> "check", a |-> a, b |-> b, op |-> op] :
            a \in VersionTexts, b \in VersionTexts, op \in Operators}

InitVersion ==
  /\ store = EmptyStore
  /\ args \in VersionArgs
  /\ ret = NoCall
  /\ again = NoCall

CallVersionLess ==
  /\ args.kind = "order"
  /\ ret = NoCall
  /\ ret' = [op |-> "versionLess",
             aa |-> versionLess(args.a, args.a),
             ab |-> versionLess(args.a, args.b),
             ba |-> versionLess(args.b, args.a),
             bc |-> versionLess(args.b, args.c),
             ac |-> versionLess(args.a, args.c)]
  /\ UNCHANGED <<store, args, again>>

CallVerConstraintCheck ==
  /\ args.kind = "check"
  /\ ret = NoCall
  /\ ret' = [op |-> "verConstraintCheck",
             less |-> versionLess(args.a, args.b),
             greater |-> versionLess(args.b, args.a),
             out |-> verConstraintCheck(args.a, args.b, args.op)]
  /\ UNCHANGED <<store, args, again>>

NextVersion == CallVersionLess \/ CallVerConstraintCheck

SpecVersion == InitVersion /\ [][NextVersion]_vars

(***************************************************************************)
(* The event log in memory (log_info.go).  In this specification store is  *)
(* the data store's log_info table: a function from the ids of the logged  *)
(* events to the events.                                                   *)
(***************************************************************************)
\* the largest id an event is logged under
MaxEvents == 3

EventIds == 1..MaxEvents

EventActions == {"create", "delete"}

\* offsets and limits of a call: up to one more than there can be events
Positions == 0..(MaxEvents + 1)

\* the arguments of GetLogInfos: none, an offset, or an offset and a limit
Limits ==
  {<<>>} \cup {<<o>> : o \in Positions}
    \cup {<<o, l>> : o \in Positions, l \in Positions}

InitLog ==
  /\ store = <<>>
  /\ args = NoArgs
  /\ ret = NoCall
  /\ again = NoCall

\* LogEvent, in memory (log_info.go 47-86): SetLogInfo files the event
\* under an id newer than every id in the table
LogEvent(id, action) ==
  /\ \A k \in DOMAIN store : k < id
  /\ store' = [k \in DOMAIN store \cup {id} |->
                 IF k = id THEN [Action |-> action] ELSE store[k]]
  /\ ret' = [op |-> "LogEvent", id |-> id]
  /\ UNCHANGED <<args, again>>

\* LogInfo.Delete, in memory (log_info.go 114-122)
DeleteLogInfo(id) ==
  /\ id \in DOMAIN store
  /\ store' = [k \in DOMAIN store \ {id} |-> store[k]]
  /\ ret' = [op |-> "Delete", id |-> id]
  /\ UNCHANGED <<args, again>>

\* sort.Sort(sort.Reverse(sort.IntSlice(keys)))
RECURSIVE sortReverse(_)
sortReverse(keys) ==
  IF keys = {} THEN <<>>
  ELSE LET top == CHOOSE k \in keys : \A o \in keys : o <= k
       IN  <<top>> \o sortReverse(keys \ {top})

\* lis[low:high] of Go, positions counted from 0: a run-time panic when
\* low is above high
Slice(lis, low, high) ==
  IF low > high \/ high > Len(lis) THEN [status |-> "panic", lis |-> <<>>]
  ELSE [status |-> "ok", lis |-> SubSeq(lis, low + 1, high)]

\* GetLogInfos, in memory (log_info.go 137-184): each event with its Id
GetLogInfos(arr, limits) ==
  LET offset == IF Len(limits) > 0 THEN limits[1] ELSE 0
      keys == sortReverse(DOMAIN arr)
      lis == [n \in 1..Len(keys) |->
                [Id |-> keys[n], Action |-> arr[keys[n]].Action]]
      limit == IF Len(limits) > 1
               THEN IF offset + limits[2] > Len(lis) THEN Len(lis)
                    ELSE offset + limits[2]
               ELSE Len(lis)
  IN  IF Len(lis) = 0 THEN [status |-> "ok", lis |-> lis]
      ELSE Slice(lis, offset, limit)

CallGetLogInfos(limits) ==
  /\ ret' = [op |-> "GetLogInfos", limits |-> limits,
             out |-> GetLogInfos(store, limits)]
  /\ UNCHANGED <<store, args, again>>

NextLog ==
  \/ \E id \in EventIds, action \in EventActions : LogEvent(id, action)
  \/ \E id \in EventIds : DeleteLogInfo(id)
  \/ \E limits \in Limits : CallGetLogInfos(limits)

SpecLog == InitLog /\ [][NextLog]_vars

(***************************************************************************)
(* The numeric value of a version text: (major, minor, patch), the patch   *)
(* being 0 when the text has two components.                               *)
(***************************************************************************)
NumTriple(v) ==
  <<Atoi(v[1]), Atoi(v[2]), IF Len(v) >= 3 THEN Atoi(v[3]) ELSE 0>>

NumLess(v, w) ==
  LET s == NumTriple(v)
      t == NumTriple(w)
  IN  \/ s[1] < t[1]
      \/ s[1] = t[1] /\ s[2] < t[2]
      \/ s[1] = t[1] /\ s[2] = t[2] /\ s[3] < t[3]

NumEq(v, w) == NumTriple(v) = NumTriple(w)

\* what a check of a candidate against a bound of the same value gives
EqualOutcome(op) ==
  CASE op \in {"=", ">=", "<=", "~>"} -> "ok"
    [] op = ">" -> "break"
    [] op = "<" -> "skip"

\* C9: two version texts with the same numeric triple compare as equal:
\* versionLess holds in neither direction, and verConstraintCheck gives for
\* every operator what it gives for a candidate equal to the bound.
C9_SameValueComparesEqual ==
  /\ (ret.op = "versionLess" /\ NumEq(args.a, args.b))
       => (~ret.ab /\ ~ret.ba)
  /\ (ret.op = "verConstraintCheck" /\ NumEq(args.a, args.b))
       => (~ret.less /\ ~ret.greater /\ ret.out = EqualOutcome(args.op))

TripleLess(s, t) ==
  \/ s[1] < t[1]
  \/ s[1] = t[1] /\ s[2] < t[2]
  \/ s[1] = t[1] /\ s[2] = t[2] /\ s[3] < t[3]

\* the exclusive upper end of "~> bound"
NumUpper(bound) ==
  IF Len(bound) >= 3
  THEN <<Atoi(bound[1]), Atoi(bound[2]) + 1, 0>>
  ELSE <<Atoi(bound[1]) + 1, 0, 0>>

Admits(constraint, v) ==
  LET op == constraint[1]
      b == constraint[2]
  IN  CASE op = "="  -> NumEq(v, b)
        [] op = ">"  -> NumLess(b, v)
        [] op = ">=" -> ~NumLess(v, b)
        [] op = "<"  -> NumLess(v, b)
        [] op = "<=" -> ~NumLess(b, v)
        [] op = "~>" -> ~NumLess(v, b) /\ TripleLess(NumTriple(v), NumUpper(b))
        [] OTHER     -> FALSE

\* v passes every non-empty constraint of the list
AdmitsAll(constraints, v) ==
  \A i \in 1..Len(constraints) :
    constraints[i] # EmptyStr => Admits(constraints[i], v)

Succeeded(call) == call.op = "DependsCookbooks" /\ call.status = "ok"

Failed(call) == call.op = "DependsCookbooks" /\ call.status # "ok"

\* C1: when DependsCookbooks succeeds, the version returned for a cookbook
\* passes every non-empty constraint the table holds for it, and no newer
\* version of the cookbook passes them all.
C1_ResultIsNewestSatisfying ==
  Succeeded(ret) =>
    \A n \in DOMAIN ret.deps :
      /\ n \in DOMAIN ret.cd
      /\ AdmitsAll(ret.cd[n], ret.deps[n].Version)
      /\ \A w \in DOMAIN store[n].Versions :
           AdmitsAll(ret.cd[n], w) => ~NumLess(ret.deps[n].Version, w)

\* C2: when DependsCookbooks succeeds, every dependency (D, c) declared by a
\* returned version has D in the result, with a version that passes c when
\* c is not empty.
C2_DeclaredDependenciesHonoured ==
  Succeeded(ret) =>
    \A p \in DOMAIN ret.deps :
      \A d \in DOMAIN ret.deps[p].Dependencies :
        /\ d \in DOMAIN ret.deps
        /\ ret.deps[p].Dependencies[d] # EmptyStr =>
             Admits(ret.deps[p].Dependencies[d], ret.deps[d].Version)

SameOutcome(x, y) ==
  \/ Succeeded(x) /\ Succeeded(y) /\ x.deps = y.deps
  \/ Failed(x) /\ Failed(y)

\* C6: resolving the same run list and environment constraints twice against
\* unchanged cookbooks gives the same outcome: the same assignment, or a
\* failure both times.
C6_SameInputsSameOutcome ==
  (again.op = "DependsCookbooks" /\ again.run_list = ret.run_list) =>
    SameOutcome(ret, again)

\* C7: two run lists that are permutations of each other, resolved with the
\* same environment constraints against the same cookbooks, give the same
\* assignment or fail both.
C7_RunListOrderIrrelevant ==
  again.op = "DependsCookbooks" => SameOutcome(ret, again)

\* C8: resolution stops with a dependency conflict for (D, c) only when no
\* version of D passes c together with every constraint the table already
\* holds for D.
C8_ConflictOnlyWhenUnsatisfiable ==
  (ret.op = "DependsCookbooks" /\ ret.err.kind = "dep_conflict") =>
    LET d == ret.err.name
    IN  ~\E w \in DOMAIN store[d].Versions :
           /\ ret.err.c # EmptyStr => Admits(ret.err.c, w)
           /\ AdmitsAll(ret.cd[d], w)

\* C3: for a well-formed constraint with one of the six operators,
\* LatestConstrained returns nil exactly when no version of the cookbook
\* passes the constraint, and otherwise a version that passes it and is
\* not older than any other version that passes it.
C3_LatestConstrainedIsGreatest ==
  (ret.op = "LatestConstrained" /\ ret.constraint # EmptyStr) =>
    LET sat == {v \in DOMAIN store[ret.name].Versions :
                  Admits(ret.constraint, v)}
    IN  /\ (ret.out = Nil) <=> (sat = {})
        /\ ret.out # Nil =>
             /\ ret.out.Version \in sat
             /\ \A w \in sat : ~NumLess(ret.out.Version, w)

\* C4: with at least one version in the cookbook, LatestVersion returns a
\* version that is in the version set and not older than any other; the
\* cached latest version is never one that was deleted.
C4_LatestIsCurrentGreatest ==
  /\ \A n \in Names :
       (store[n] # Nil /\ store[n].latest # Nil
          /\ DOMAIN store[n].Versions # {}) =>
         store[n].latest.Version \in DOMAIN store[n].Versions
  /\ (ret.op = "LatestVersion" /\ DOMAIN store[ret.name].Versions # {}) =>
       /\ ret.out # Panic
       /\ ret.out.Version \in DOMAIN store[ret.name].Versions
       /\ \A w \in DOMAIN store[ret.name].Versions :
            ~NumLess(ret.out.Version, w)

\* version texts the merged constraint is probed with
ProbeVersions ==
  {<<<<x>>, <<y>>>> : x \in 0..2, y \in 0..2}
    \cup {<<<<x>>, <<y>>, <<z>>>> : x \in 0..2, y \in 0..2, z \in 0..2}

MergeFailed(call) ==
  call.err.kind \in {"env_conflict", "env_impossible", "malformed"}

\* C5: when the run list pins a cookbook to a version and the environment
\* has a constraint for it, a merge without error leaves in the table a
\* constraint that admits only versions both of them admit, and the pinned
\* version is one the environment admits.
C5_MergeOnlyNarrows ==
  (ret.op = "DependsCookbooks" /\ ~MergeFailed(ret)) =>
    \A i \in 1..Len(ret.run_list) :
      LET k == entryName(ret.run_list[i])
          req == entryConstraint(ret.run_list[i])
      IN  (req # EmptyStr /\ k \in DOMAIN ret.env) =>
            /\ \A w \in ProbeVersions :
                 Admits(ret.cd[k][1], w) =>
                   (Admits(req, w) /\ Admits(ret.env[k], w))
            /\ Admits(ret.env[k], req[2])

(***************************************************************************)
(* What verConstraintCheck is to return, by the numeric value of the       *)
(* candidate and of the bound.                                             *)
(***************************************************************************)
SimpleOps == {"=", ">", ">=", "<", "<="}

SimpleOutcome(op, candidate, bound) ==
  IF Admits(<<op, bound>>, candidate) THEN "ok"
  ELSE CASE op = "=" -> IF NumLess(candidate, bound) THEN "break" ELSE "skip"
         [] op \in {">", ">="} -> "break"
         [] OTHER -> "skip"

PessimisticOutcome(candidate, bound) ==
  IF NumLess(candidate, bound) THEN "break"
  ELSE IF TripleLess(NumTriple(candidate), NumUpper(bound)) THEN "ok"
  ELSE "skip"

\* C11: for the operators =, >, >=, < and <=, verConstraintCheck returns ok
\* exactly when the numeric relation between candidate and bound holds, and
\* otherwise break for > and >=, skip for < and <=, and for = break when the
\* candidate is smaller than the bound and skip when it is greater.
C11_SimpleOperatorOutcome ==
  (ret.op = "verConstraintCheck" /\ args.op \in SimpleOps) =>
    ret.out = SimpleOutcome(args.op, args.a, args.b)

\* C12: for ~>, verConstraintCheck returns break when the candidate is below
\* the bound, ok when it is at least the bound and below the upper end
\* (major, minor + 1, 0), or (major + 1, 0, 0) for a two-part bound, and skip
\* when it is at or above the upper end.
C12_PessimisticOutcome ==
  (ret.op = "verConstraintCheck" /\ args.op = "~>") =>
    ret.out = PessimisticOutcome(args.a, args.b)

\* the case of C13: cookbook versions {1.0.0, 1.2.0, 2.0.0} asked for
\* "~> 1.0.0"
PessimisticExample ==
  /\ ret.op = "LatestConstrained"
  /\ ret.constraint = <<"~>", V100>>
  /\ DOMAIN store[ret.name].Versions = {V100, V120, V200}

\* C13, as stated: with versions {1.0.0, 1.2.0, 2.0.0} and the constraint
\* "~> 1.0.0", LatestConstrained returns version 1.2.0.
C13_ReturnsOneTwoZero ==
  PessimisticExample => (ret.out # Nil /\ ret.out.Version = V120)

\* C13, amended: with versions {1.0.0, 1.2.0, 2.0.0} and the constraint
\* "~> 1.0.0", which admits [1.0.0, 1.1.0), LatestConstrained returns
\* version 1.0.0: 2.0.0 and 1.2.0 are both at or above the upper end.
C13_ReturnsOneZeroZero ==
  PessimisticExample => (ret.out # Nil /\ ret.out.Version = V100)

C13_Witness ==
  /\ PessimisticExample
  /\ ret.out # Nil
  /\ ret.out.Version = V100

(***************************************************************************)
(* The merge of the run list's pin with the environment's constraint, for  *)
(* a one-entry run list: what was requested, what the environment holds,   *)
(* and what the call left in the table.                                    *)
(***************************************************************************)
Requested(call) == entryConstraint(call.run_list[1])

EnvConstraint(call) == call.env[entryName(call.run_list[1])]

Merged(call) == call.cd[entryName(call.run_list[1])]

\* a call in which both the run list and the environment constrain the
\* cookbook
MergeCase(call) ==
  /\ call.op = "DependsCookbooks"
  /\ Len(call.run_list) = 1
  /\ Requested(call) # EmptyStr
  /\ entryName(call.run_list[1]) \in DOMAIN call.env

\* the two constraints name versions of different numeric value
VersionsDiffer(call) == ~NumEq(Requested(call)[2], EnvConstraint(call)[2])

MergeConflict(call, kind) ==
  /\ call.status = "error"
  /\ call.err.kind = kind
  /\ call.deps = <<>>

C16_EmptyOrEqualTakesEnvironment ==
  (/\ ret.op = "DependsCookbooks"
   /\ Len(ret.run_list) = 1
   /\ entryName(ret.run_list[1]) \in DOMAIN ret.env) =>
    ((Requested(ret) = EmptyStr \/ ~VersionsDiffer(ret)) =>
       (~MergeFailed(ret) /\ Merged(ret) = <<EnvConstraint(ret)>>))

\* a constraint of two tokens whose operator is not one of the six
UnknownOperator(constraint) ==
  /\ constraint # EmptyStr
  /\ splitOk(constraint)
  /\ constraint[1] \notin Operators

\* C17: a constraint with an operator outside the six is never treated as
\* satisfied: ConstrainedInfoHash lists no version for it, LatestConstrained
\* selects none, and DependsCookbooks, given it by the environment for a
\* cookbook of the run list, fails with an error.
C17_UnknownOperatorIsAnError ==
  /\ (ret.op = "ConstrainedInfoHash" /\ UnknownOperator(ret.constraint)) =>
       (ret.out = Nil \/ ret.out.versions = <<>>)
  /\ (ret.op = "LatestConstrained" /\ UnknownOperator(ret.constraint)) =>
       ret.out = Nil
  /\ (ret.op = "DependsCookbooks" /\ Len(ret.run_list) = 1
       /\ entryName(ret.run_list[1]) \in DOMAIN ret.env
       /\ UnknownOperator(EnvConstraint(ret))) =>
       (ret.status = "error" /\ ret.deps = <<>>)

\* C18: for a cookbook with no versions, LatestVersion, and LatestConstrained
\* with the empty constraint, return nil: no version, and no run-time panic.
C18_NoVersionsGivesNil ==
  (/\ \/ ret.op = "LatestVersion"
      \/ ret.op = "LatestConstrained" /\ ret.constraint = EmptyStr
   /\ DOMAIN store[ret.name].Versions = {}) =>
    ret.out = Nil

RunListNames(call) ==
  {entryName(call.run_list[i]) : i \in 1..Len(call.run_list)}

\* no version of the stored cookbook n passes the constraint the table holds
\* for n after the merge
NoneSatisfies(call, n) ==
  \A w \in DOMAIN store[n].Versions : ~AdmitsAll(<<call.cd[n][1]>>, w)

\* C20: DependsCookbooks returns: either a map with a version for every
\* cookbook of the table and no error, or an error and no map.  It returns an
\* error when a cookbook of the run list, or a dependency the walk reached,
\* is not stored, and when no version of a run-list cookbook passes its
\* merged constraint.
C20_AllOrNothing ==
  ret.op = "DependsCookbooks" =>
    /\ ret.status \in {"ok", "error"}
    /\ ret.status = "ok" =>
         (ret.err = NoErr /\ DOMAIN ret.deps = DOMAIN ret.cd)
    /\ ret.status = "error" => (ret.err # NoErr /\ ret.deps = <<>>)
    /\ (\E n \in DOMAIN ret.cd : store[n] = Nil) => ret.status = "error"
    /\ (\E n \in RunListNames(ret) :
          store[n] # Nil /\ NoneSatisfies(ret, n)) => ret.status = "error"

(***************************************************************************)
(* What infoHashBase is to list.                                           *)
(***************************************************************************)
\* the versions of the cookbook that pass the constraint, all of them when
\* there is none
Satisfying(c, constraint) ==
  {v \in DOMAIN c.Versions : constraint = EmptyStr \/ Admits(constraint, v)}

\* listed holds the first k of the set sat in descending order: k distinct
\* elements of sat, none older than its successor in the list, and none
\* older than an element of sat that is left out
FirstDescending(listed, sat, k) ==
  /\ Len(listed) = k
  /\ \A i \in 1..Len(listed) : listed[i] \in sat
  /\ \A i, j \in 1..Len(listed) :
       i < j => (listed[i] # listed[j] /\ ~NumLess(listed[i], listed[j]))
  /\ \A w \in sat :
       (\A i \in 1..Len(listed) : listed[i] # w) =>
         \A i \in 1..Len(listed) : ~NumLess(listed[i], w)

Smaller(m, n) == IF m < n THEN m ELSE n

\* C21: for no constraint, or a two-token constraint with one of the six
\* operators, infoHashBase lists the first k versions, in descending order,
\* of those that pass the constraint, k being the smaller of their number
\* and the limit: 1 for "", no limit for "all", N for the text of N.
C21_InfoHashListsFirstSatisfying ==
  (/\ ret.op = "ConstrainedInfoHash"
   /\ ret.constraint = EmptyStr \/ ret.constraint[1] \in Operators) =>
    LET sat == Satisfying(store[ret.name], ret.constraint)
        k == IF ret.num_results.kind = "all" THEN Cardinality(sat)
             ELSE Smaller(Cardinality(sat), numVersions(ret.num_results))
    IN  /\ ret.out # Nil
        /\ FirstDescending(ret.out.versions, sat, k)

(***************************************************************************)
(* NewVersion on a version the cookbook has, and on one it has not.        *)
(***************************************************************************)
VersionSet(st, n) == DOMAIN st[n].Versions

\* the step is a call of operation op of cookbook "a"
CallOf(op) == ret'.op = op /\ ret'.name = "a"

\* C22: NewVersion(v) on a cookbook that has version v returns a conflict
\* error and leaves the version set, the contents of v and the latest
\* pointer as they were; a successful NewVersion adds v to the version set
\* and changes no other version; a NewVersion that fails its validation
\* leaves the version set as it was.
C22_NewVersionAddsExactlyOne ==
  [][CallOf("NewVersion") =>
       LET v == ret'.version
           before == store["a"]
           after == store'["a"]
       IN  /\ v \in VersionSet(store, "a") =>
                /\ ret'.err.kind = "conflict"
                /\ after = before
           /\ ret'.err = NoErr =>
                /\ v \notin VersionSet(store, "a")
                /\ VersionSet(store', "a") = VersionSet(store, "a") \cup {v}
                /\ \A w \in VersionSet(store, "a") :
                     after.Versions[w] = before.Versions[w]
           /\ ret'.err # NoErr =>
                VersionSet(store', "a") = VersionSet(store, "a")]_vars

\* a refused NewVersion of a stored, frozen version that is not the only one
C22_Witness ==
  /\ ret.op = "NewVersion"
  /\ ret.err.kind = "conflict"
  /\ ret.version \in VersionSet(store, "a")
  /\ store["a"].Versions[ret.version].IsFrozen
  /\ Cardinality(VersionSet(store, "a")) > 1

(***************************************************************************)
(* UpdateVersion on a frozen version.                                      *)
(***************************************************************************)
\* C23: UpdateVersion on a frozen version with a force argument other than
\* "true" returns an error and changes nothing; no UpdateVersion, forced or
\* not, turns the frozen flag of a frozen version off.
C23_FrozenNeedsForce ==
  [][CallOf("UpdateVersion") =>
       LET v == ret'.version
           cbv == store["a"].Versions[v]
       IN  cbv.IsFrozen =>
             /\ store'["a"].Versions[v].IsFrozen
             /\ ret'.force # "true" =>
                  /\ ret'.err.kind = "frozen"
                  /\ store' = store]_vars

\* an update of a frozen version refused for force = "false", in a cookbook
\* whose latest version is the frozen one
C23_Witness ==
  /\ ret.op = "UpdateVersion"
  /\ ret.force = "false"
  /\ ret.err.kind = "frozen"
  /\ store["a"].Versions[ret.version].IsFrozen
  /\ store["a"].latest = store["a"].Versions[ret.version]

(***************************************************************************)
(* The event log, listed.                                                  *)
(***************************************************************************)
\* the ids of the logged events, newest first
NewestFirst == sortReverse(DOMAIN store)

\* the window of at most l ids from position o of ids
Window(ids, o, l) ==
  [i \in 1..Smaller(l, IF Len(ids) > o THEN Len(ids) - o ELSE 0) |->
     ids[o + i]]

IdsOf(lis) == [i \in 1..Len(lis) |-> lis[i].Id]

\* C24: GetLogInfos returns the events newest first; with an offset o and a
\* limit l the window of at most l events from position o, with an offset
\* alone every event from position o on; an offset beyond the last event
\* gives the empty list.
C24_GetLogInfosWindow ==
  ret.op = "GetLogInfos" =>
    LET o == IF Len(ret.limits) > 0 THEN ret.limits[1] ELSE 0
        l == IF Len(ret.limits) > 1 THEN ret.limits[2]
             ELSE Len(NewestFirst)
        lis == ret.out.lis
    IN  /\ ret.out.status = "ok"
        /\ IdsOf(lis) = Window(NewestFirst, o, l)
        /\ \A i \in 1..(Len(lis) - 1) : lis[i].Id > lis[i + 1].Id

\* a call whose offset is within the logged events, answered with a window
\* that leaves events out at both ends
C24_Witness ==
  /\ ret.op = "GetLogInfos"
  /\ Len(ret.limits) = 2
  /\ ret.limits[1] = 1
  /\ ret.out.status = "ok"
  /\ Len(ret.out.lis) = 1
  /\ Cardinality(DOMAIN store) = 3

\* the same for the calls whose offset is not beyond the last event
C24_WindowWithinTheLog ==
  (/\ ret.op = "GetLogInfos"
   /\ Len(ret.limits) > 0 => ret.limits[1] <= Len(NewestFirst)) =>
    C24_GetLogInfosWindow

(***************************************************************************)
(* Termination of the resolution.                                          *)
(***************************************************************************)
\* a version of the store that depends on its own cookbook
SelfDependent ==
  \E n \in Present : \E v \in DOMAIN store[n].Versions :
    n \in DOMAIN store[n].Versions[v].Dependencies

\* C25: DependsCookbooks ends with a result or an error for every store
\* and run list, dependency cycles included: the walk of the dependencies
\* never goes deeper than there are versions in the store.
C25_ResolutionTerminates ==
  ret.op = "DependsCookbooks" => ret.status # "overflow"

\* a resolution that ended with a result over a store holding a version
\* that depends on its own cookbook
C25_Witness ==
  /\ ret.op = "DependsCookbooks"
  /\ ret.status = "ok"
  /\ SelfDependent

(***************************************************************************)
(* The hashes handed to the file store.                                    *)
(***************************************************************************)
\* the checksums carried by the versions of the store
Carried ==
  UNION {UNION {{store[n].Versions[v].Files[i] :
                   i \in 1..Len(store[n].Versions[v].Files)} :
                v \in DOMAIN store[n].Versions} : n \in Present}

\* ascending, no element twice
StrictlyAscending(strs) ==
  \A i \in 1..(Len(strs) - 1) : strs[i] < strs[i + 1]

FileOps == {"DeleteVersion", "UpdateVersion"}

\* C26: the list DeleteVersion or UpdateVersion hands to
\* filestore.DeleteHashes holds no checksum that a version of the store
\* still carries, however often a checksum occurs among the files of a
\* version; fileHashes gives an ascending list without duplicates.
C26_OnlyUnusedHashesDeleted ==
  /\ ret.op \in FileOps =>
       \A i \in 1..Len(ret.deleted) : ret.deleted[i] \notin Carried
  /\ \A n \in Present : \A v \in DOMAIN store[n].Versions :
       StrictlyAscending(fileHashes(store[n].Versions[v]))

\* no checksum occurs three times among the files of a version
AtMostTwice(f) ==
  \A h \in Checksums : Cardinality({i \in 1..Len(f) : f[i] = h}) < 3

\* the same while fileHashes left no duplicate: for the versions of the
\* store, and for the hashes the version of the call had before it
C26_WithoutDuplicates ==
  /\ \A n \in Present : \A v \in DOMAIN store[n].Versions :
       AtMostTwice(store[n].Versions[v].Files) =>
         StrictlyAscending(fileHashes(store[n].Versions[v]))
  /\ (/\ ret.op \in FileOps
      /\ StrictlyAscending(ret.file_hashes)
      /\ \A n \in Present : \A v \in DOMAIN store[n].Versions :
           StrictlyAscending(fileHashes(store[n].Versions[v]))) =>
       \A i \in 1..Len(ret.deleted) : ret.deleted[i] \notin Carried

\* the part of C26 about the list handed on
C26_HandedOnIsUnused ==
  ret.op \in FileOps =>
    \A i \in 1..Len(ret.deleted) : ret.deleted[i] \notin Carried

\* a deletion that handed on a checksum no stored version carries, while
\* another version of the store carries files
C26_Witness ==
  /\ ret.op = "DeleteVersion"
  /\ Len(ret.deleted) > 0
  /\ \A i \in 1..Len(ret.deleted) : ret.deleted[i] \notin Carried
  /\ Carried # {}

(***************************************************************************)
(* New for a name that is taken.                                           *)
(***************************************************************************)
\* C27: New for a name under which a cookbook is stored returns a conflict
\* error and no cookbook, so the stored cookbook and its versions stay;
\* a cookbook without versions is made only for a name not yet stored.
C27_NewRefusesExistingName ==
  [][CallOf("New") =>
       IF store["a"] # Nil
       THEN /\ ret'.err.kind = "conflict"
            /\ store' = store
       ELSE /\ ret'.err = NoErr
            /\ store'["a"] = NewCookbook("a")]_vars

\* New has answered, and the cookbook stored under the name has no versions
C27_Witness ==
  /\ ret.op = "New"
  /\ ret.err = NoErr
  /\ store["a"] = NewCookbook("a")
====
